---- MODULE Spec2Model ----
\* Model of ResumeFineTuning.run_on (src/ResumeFineTuning.py): the driver that
\* resumes an interrupted fine-tuning session.  The driver is a straight line
\* of calls to collaborators; the state is the driver's position, the calls it
\* has made, the model directory left by the earlier session, and the values
\* the driver passes from one call to the next.
EXTENDS Integers, Sequences, FiniteSets, TLC

\* ---------------------------------------------------------------------------
\* Parameters (the `parameters` dictionary) and bounds
\* ---------------------------------------------------------------------------
N_TRAINING_EPOCHS == 20
BATCH_SIZE == 32
N_BLOCKS == 7

\* Largest number of rows the earlier session left in classification_layers.csv.
MaxPhase1Rows == 2
\* The base-model factory offers layer lists l(b) = 10 * b + off, off in 0..MaxLayerOffset.
MaxLayerOffset == 1

CLASSIFICATION_CSV == "classification_layers.csv"
FINE_TUNE_CSV == "fine_tune.csv"
BACKUP == "backup"
Files == {CLASSIFICATION_CSV, FINE_TUNE_CSV, BACKUP}

\* A file is <<>> when it does not exist and <<n>> when it exists: n rows for a
\* metrics file, n completed epochs for the training backup.
Missing == <<>>

VARIABLES
    pc,               \* the stage run_on executes next, "done" or "error"
    log,              \* the stages started so far, in order
    failed_at,        \* <<>> or <<s>>, the stage whose call raised
    fine_tune_start_block, \* self.fine_tune_start_block
    model_dir,        \* the files of MODEL_DIR
    model_dir0,       \* the files of MODEL_DIR when run_on started
    reset_dirs_arg,   \* <<>> or <<b>>, the reset_dirs passed to get_config
    base_model,       \* <<>> or <<[fine_tune_layers |-> ...]>>
    mm,               \* the ModelManager's model: built, frozen, prepared
    prepare_arg,      \* <<>> or <<n>>, n_fine_tune_layer_from of prepare
    fine_tune_arg,    \* <<>> or <<n>>, n_fine_tune_layer_from of fine_tune
    start_epoch,      \* <<>> or <<e>>, the epoch at which training started
    epochs_run,       \* fine-tuning epochs trained by this run
    phases_trained,   \* the training phases this run executed, in order
    model,            \* <<>> or <<m>>, the value fine_tune_model returned
    history_phase_1,  \* <<>> or <<content>> read from classification_layers.csv
    history_phase_2,  \* <<>> or <<content>> read from fine_tune.csv
    plots             \* the plots produced, in order

vars == <<pc, log, failed_at, fine_tune_start_block, model_dir, model_dir0,
          reset_dirs_arg, base_model, mm, prepare_arg, fine_tune_arg,
          start_epoch, epochs_run, phases_trained, model, history_phase_1,
          history_phase_2, plots>>

Range(s) == {s[i] : i \in 1..Len(s)}

\* ---------------------------------------------------------------------------
\* Control flow of run_on
\* ---------------------------------------------------------------------------
\* The same calls with prediction placed before the plots.
StageOrderPredictFirst ==
    << "get_config", "load_datasets", "get_base_model", "get_image_iterators",
       "build_model", "freeze_base_model", "prepare_model_for_fine_tune",
       "fine_tune_model", "read_csv", "predict", "plot",
       "show_final_classification_report" >>

\* The same calls with the preparation placed before the freeze.
StageOrderPrepareFirst ==
    << "get_config", "load_datasets", "get_base_model", "get_image_iterators",
       "build_model", "prepare_model_for_fine_tune", "freeze_base_model",
       "fine_tune_model", "read_csv", "plot", "predict",
       "show_final_classification_report" >>

\* The same calls with the freeze placed after the fine-tuning.
StageOrderFreezeLast ==
    << "get_config", "load_datasets", "get_base_model", "get_image_iterators",
       "build_model", "prepare_model_for_fine_tune", "fine_tune_model",
       "freeze_base_model", "read_csv", "plot", "predict",
       "show_final_classification_report" >>

StageOrder ==
    << "get_config", "load_datasets", "get_base_model", "get_image_iterators",
       "build_model", "freeze_base_model", "prepare_model_for_fine_tune",
       "fine_tune_model", "read_csv", "plot", "predict",
       "show_final_classification_report" >>

IndexOf(s) == CHOOSE i \in 1..Len(StageOrder) : StageOrder[i] = s

\* The statement that follows stage s in run_on.
Succ(s) == IF IndexOf(s) < Len(StageOrder) THEN StageOrder[IndexOf(s) + 1] ELSE "done"

\* The call of stage s returned: run_on goes on with the next statement.
Return(s) == /\ pc' = Succ(s)
             /\ failed_at' = failed_at

\* An exception that is caught and dropped: run_on goes on.
RaiseSwallowed(s) == /\ pc' = Succ(s)
                     /\ failed_at' = <<s>>

\* The call of stage s raised: run_on has no try/except, the exception leaves it.
Raise(s) == /\ pc' = "error"
            /\ failed_at' = <<s>>

Start(s) == /\ pc = s
            /\ log' = Append(log, s)

\* ---------------------------------------------------------------------------
\* Values the driver computes itself
\* ---------------------------------------------------------------------------
\* reset_dirs of environment.get_config(reset_dirs=False).
ResetDirsTrue == TRUE
ResetDirs == FALSE

\* n_epochs of fine_tune_model(n_epochs=self.n_training_epochs).
NEpochsBatchSize == BATCH_SIZE
NEpochs == N_TRAINING_EPOCHS

\* Python's list subscript: indices 0..len-1, and -len..-1 counted from the end;
\* any other index raises IndexError.
PyIndexOK(seq, i) == -Len(seq) <= i /\ i < Len(seq)
PyIndex(seq, i) == IF i >= 0 THEN seq[i + 1] ELSE seq[Len(seq) + i + 1]

\* The subscript of base_model.fine_tune_layers[...] in the call of
\* prepare_model_for_fine_tune and in the call of fine_tune_model.
PrepareLayerIndex == fine_tune_start_block - 1
FineTuneLayerIndexOffByOne == fine_tune_start_block
FineTuneLayerIndex == fine_tune_start_block - 1

\* The files pd.read_csv is given for the two histories.
Phase1FileCopyPaste == FINE_TUNE_CSV
Phase1File == CLASSIFICATION_CSV
Phase2File == FINE_TUNE_CSV

\* pd.read_csv raises when the file does not exist, else yields its content.
ReadCsvOK(dir, f) == dir[f] # Missing
ReadCsv(dir, f) == dir[f]

\* ---------------------------------------------------------------------------
\* Collaborators (classes.Environment, BaseModelFactory, ModelManager)
\* ---------------------------------------------------------------------------
\* Environment.get_config: the data directories of the previous session are
\* deleted when reset_dirs is set, and kept otherwise.
GetConfig(dir, reset_dirs) == IF reset_dirs THEN [f \in Files |-> Missing] ELSE dir

\* BaseModelFactory.get_base_model: one entry of fine_tune_layers per block.
BaseModels ==
    { [fine_tune_layers |-> [b \in 1..N_BLOCKS |-> 10 * b + off]] : off \in 0..MaxLayerOffset }

NewModel == [built |-> FALSE, frozen |-> FALSE, trainable_from |-> <<>>,
             compiled |-> FALSE, prepared_on_frozen |-> FALSE]

BuildModel(m) == [m EXCEPT !.built = TRUE]

\* freeze_base_model: no layer of the base model is trainable.
FreezeBaseModel(m) == [m EXCEPT !.frozen = TRUE, !.trainable_from = <<>>]

\* prepare_model_for_fine_tune: the layers from n on become trainable and the
\* model is compiled.
PrepareModelForFineTune(m, n) ==
    [m EXCEPT !.trainable_from = <<n>>, !.compiled = TRUE, !.prepared_on_frozen = m.frozen]

\* The BackupRestore callback: training starts at the epoch of the backup, or
\* at epoch 0 when there is none.
InitialEpoch(dir) == IF dir[BACKUP] = Missing THEN 0 ELSE dir[BACKUP][1]

\* Epochs fit() still has to train to reach epoch n from epoch e.
Remaining(n, e) == IF n > e THEN n - e ELSE 0

Rows(file) == IF file = Missing THEN 0 ELSE file[1]

\* The model directory after j more epochs, the last of them ending the
\* training or not: every epoch adds a row to fine_tune.csv and rewrites the
\* backup, which is deleted when the training ends.
AfterTraining(dir, j, finished) ==
    [dir EXCEPT ![FINE_TUNE_CSV] = <<Rows(dir[FINE_TUNE_CSV]) + j>>,
                ![BACKUP] = IF finished THEN Missing
                            ELSE IF j = 0 THEN dir[BACKUP]
                            ELSE <<InitialEpoch(dir) + j>>]

\* ---------------------------------------------------------------------------
\* Initial state: the parameters, and the directory the earlier session left
\* ---------------------------------------------------------------------------
PreviousSessions ==
    { [f \in Files |-> CASE f = CLASSIFICATION_CSV -> cl
                         [] f = FINE_TUNE_CSV -> bk
                         [] OTHER -> bk] :
        cl \in {Missing} \cup {<<r>> : r \in 1..MaxPhase1Rows},
        bk \in {Missing} \cup {<<e>> : e \in 1..(N_TRAINING_EPOCHS - 1)} }

Init ==
    /\ pc = "get_config"
    /\ log = <<>>
    /\ failed_at = <<>>
    /\ fine_tune_start_block \in 0..(N_BLOCKS + 1)
    /\ model_dir \in PreviousSessions
    /\ model_dir0 = model_dir
    /\ reset_dirs_arg = <<>>
    /\ base_model = <<>>
    /\ mm = NewModel
    /\ prepare_arg = <<>>
    /\ fine_tune_arg = <<>>
    /\ start_epoch = <<>>
    /\ epochs_run = 0
    /\ phases_trained = <<>>
    /\ model = <<>>
    /\ history_phase_1 = <<>>
    /\ history_phase_2 = <<>>
    /\ plots = <<>>

\* ---------------------------------------------------------------------------
\* The stages of run_on, one action per stage
\* ---------------------------------------------------------------------------
\* environment = Environment(...); environment.get_config(reset_dirs=False);
\* self.model_dir = ...; environment.print_versions()
EnvironmentConfiguration ==
    /\ Start("get_config")
    /\ \/ /\ reset_dirs_arg' = <<ResetDirs>>
          /\ model_dir' = GetConfig(model_dir, ResetDirs)
          /\ Return("get_config")
       \* Environment(environment_name) raises: get_config is never called.
       \/ /\ Raise("get_config")
          /\ UNCHANGED <<reset_dirs_arg, model_dir>>
       \* get_config itself raises, before or after it handled the directories.
       \/ /\ reset_dirs_arg' = <<ResetDirs>>
          /\ model_dir' \in {model_dir, GetConfig(model_dir, ResetDirs)}
          /\ Raise("get_config")
       \* get_config returned; the ["MODEL_DIR"] lookup or print_versions raises.
       \/ /\ reset_dirs_arg' = <<ResetDirs>>
          /\ model_dir' = GetConfig(model_dir, ResetDirs)
          /\ Raise("get_config")
    /\ UNCHANGED <<fine_tune_start_block, model_dir0, base_model, mm, prepare_arg,
                   fine_tune_arg, start_epoch, epochs_run, phases_trained, model,
                   history_phase_1, history_phase_2, plots>>

\* dataset_manager = DatasetManager(...); dataset_manager.load_datasets()
DatasetLoading ==
    /\ Start("load_datasets")
    /\ \/ Return("load_datasets")
       \/ Raise("load_datasets")
    /\ UNCHANGED <<fine_tune_start_block, model_dir, model_dir0, reset_dirs_arg,
                   base_model, mm, prepare_arg, fine_tune_arg, start_epoch,
                   epochs_run, phases_trained, model, history_phase_1,
                   history_phase_2, plots>>

\* base_model = BaseModelFactory().get_base_model(self.base_model_name)
BaseModelCreation ==
    /\ Start("get_base_model")
    /\ \/ /\ \E b \in BaseModels : base_model' = <<b>>
          /\ Return("get_base_model")
       \/ /\ Raise("get_base_model")
          /\ UNCHANGED base_model
    /\ UNCHANGED <<fine_tune_start_block, model_dir, model_dir0, reset_dirs_arg,
                   mm, prepare_arg, fine_tune_arg, start_epoch, epochs_run,
                   phases_trained, model, history_phase_1, history_phase_2, plots>>

\* self.iterator_training, self.iterator_validation = get_image_iterators(...)
ImageIteratorCreation ==
    /\ Start("get_image_iterators")
    /\ \/ Return("get_image_iterators")
       \/ Raise("get_image_iterators")
    /\ UNCHANGED <<fine_tune_start_block, model_dir, model_dir0, reset_dirs_arg,
                   base_model, mm, prepare_arg, fine_tune_arg, start_epoch,
                   epochs_run, phases_trained, model, history_phase_1,
                   history_phase_2, plots>>

\* model_manager = ModelManager(...); model_manager.build_model(...)
ModelBuild ==
    /\ Start("build_model")
    /\ \/ /\ mm' = BuildModel(mm)
          /\ Return("build_model")
       \* ModelManager(...) or build_model raises, the model built or not.
       \/ /\ Raise("build_model")
          /\ mm' \in {mm, BuildModel(mm)}
    /\ UNCHANGED <<fine_tune_start_block, model_dir, model_dir0, reset_dirs_arg,
                   base_model, prepare_arg, fine_tune_arg, start_epoch, epochs_run,
                   phases_trained, model, history_phase_1, history_phase_2, plots>>

\* model_manager.freeze_base_model()
Freeze ==
    /\ Start("freeze_base_model")
    /\ \/ /\ mm' = FreezeBaseModel(mm)
          /\ Return("freeze_base_model")
       \* freeze_base_model raises, before or after it froze the base model.
       \/ /\ Raise("freeze_base_model")
          /\ mm' \in {mm, FreezeBaseModel(mm)}
    /\ UNCHANGED <<fine_tune_start_block, model_dir, model_dir0, reset_dirs_arg,
                   base_model, prepare_arg, fine_tune_arg, start_epoch, epochs_run,
                   phases_trained, model, history_phase_1, history_phase_2, plots>>

\* model_manager.prepare_model_for_fine_tune(n_fine_tune_layer_from=
\*     base_model.fine_tune_layers[self.fine_tune_start_block - 1])
PrepareForFineTuning ==
    /\ Start("prepare_model_for_fine_tune")
    /\ \/ /\ PyIndexOK(base_model[1].fine_tune_layers, PrepareLayerIndex)
          /\ LET n == PyIndex(base_model[1].fine_tune_layers, PrepareLayerIndex)
             IN  \/ /\ prepare_arg' = <<n>>
                    /\ mm' = PrepareModelForFineTune(mm, n)
                    /\ Return("prepare_model_for_fine_tune")
                 \/ /\ prepare_arg' = <<n>>
                    /\ mm' \in {mm, PrepareModelForFineTune(mm, n)}
                    /\ Raise("prepare_model_for_fine_tune")
       \/ /\ ~PyIndexOK(base_model[1].fine_tune_layers, PrepareLayerIndex)
          /\ Raise("prepare_model_for_fine_tune")
          /\ UNCHANGED <<prepare_arg, mm>>
    /\ UNCHANGED <<fine_tune_start_block, model_dir, model_dir0, reset_dirs_arg,
                   base_model, fine_tune_arg, start_epoch, epochs_run,
                   phases_trained, model, history_phase_1, history_phase_2, plots>>

\* model = model_manager.fine_tune_model(training_iterator=..., n_epochs=
\*     self.n_training_epochs, n_fine_tune_layer_from=base_model.fine_tune_layers[
\*     self.fine_tune_start_block - 1])
FineTuning ==
    /\ Start("fine_tune_model")
    /\ \/ /\ PyIndexOK(base_model[1].fine_tune_layers, FineTuneLayerIndex)
          /\ LET n == PyIndex(base_model[1].fine_tune_layers, FineTuneLayerIndex)
                 e == InitialEpoch(model_dir)
                 r == Remaining(NEpochs, e)
             IN  /\ fine_tune_arg' = <<n>>
                 /\ \/ /\ start_epoch' = <<e>>
                       /\ phases_trained' = Append(phases_trained, 2)
                       /\ \/ /\ epochs_run' = epochs_run + r
                             /\ model_dir' = AfterTraining(model_dir, r, TRUE)
                             /\ model' = <<mm>>
                             /\ Return("fine_tune_model")
                          \* the training started and the call raises during
                          \* or after it
                          \/ /\ \E j \in 0..r, finished \in BOOLEAN :
                                   /\ finished => j = r
                                   /\ epochs_run' = epochs_run + j
                                   /\ model_dir' = AfterTraining(model_dir, j, finished)
                             /\ model' = model
                             /\ Raise("fine_tune_model")
                    \* the call raises before any training started
                    \/ /\ Raise("fine_tune_model")
                       /\ UNCHANGED <<start_epoch, phases_trained, epochs_run,
                                      model_dir, model>>
       \/ /\ ~PyIndexOK(base_model[1].fine_tune_layers, FineTuneLayerIndex)
          /\ Raise("fine_tune_model")
          /\ UNCHANGED <<fine_tune_arg, start_epoch, phases_trained, epochs_run,
                         model_dir, model>>
    /\ UNCHANGED <<fine_tune_start_block, model_dir0, reset_dirs_arg, base_model,
                   mm, prepare_arg, history_phase_1, history_phase_2, plots>>

\* history_phase_1 = pd.read_csv(model_dir + '/classification_layers.csv')
\* history_phase_2 = pd.read_csv(model_dir + '/fine_tune.csv')
ReadingMetricFiles ==
    /\ Start("read_csv")
    /\ \/ /\ ReadCsvOK(model_dir, Phase1File)
          /\ history_phase_1' = <<ReadCsv(model_dir, Phase1File)>>
          /\ \/ /\ ReadCsvOK(model_dir, Phase2File)
                /\ history_phase_2' = <<ReadCsv(model_dir, Phase2File)>>
                /\ Return("read_csv")
             \/ /\ history_phase_2' = history_phase_2
                /\ Raise("read_csv")
       \/ /\ Raise("read_csv")
          /\ UNCHANGED <<history_phase_1, history_phase_2>>
    /\ UNCHANGED <<fine_tune_start_block, model_dir, model_dir0, reset_dirs_arg,
                   base_model, mm, prepare_arg, fine_tune_arg, start_epoch,
                   epochs_run, phases_trained, model, plots>>

Plot(kind, phase, history) == [kind |-> kind, phase |-> phase, history |-> history]

\* ReportManager.plot_accuracy_loss (phase 1, phase 2), then
\* ReportManager.plot_model_metrics (phase 1, phase 2)
Plotting ==
    /\ Start("plot")
    /\ \/ /\ plots' = plots \o << Plot("accuracy_loss", 1, history_phase_1[1]),
                                  Plot("accuracy_loss", 2, history_phase_2[1]),
                                  Plot("model_metrics", 1, history_phase_1[1]),
                                  Plot("model_metrics", 2, history_phase_2[1]) >>
          /\ Return("plot")
       \/ /\ \E done \in 0..3 :
                plots' = plots \o SubSeq(
                           << Plot("accuracy_loss", 1, history_phase_1[1]),
                              Plot("accuracy_loss", 2, history_phase_2[1]),
                              Plot("model_metrics", 1, history_phase_1[1]) >>, 1, done)
          /\ Raise("plot")
    /\ UNCHANGED <<fine_tune_start_block, model_dir, model_dir0, reset_dirs_arg,
                   base_model, mm, prepare_arg, fine_tune_arg, start_epoch,
                   epochs_run, phases_trained, model, history_phase_1,
                   history_phase_2>>

\* validation_predicted = model.predict(self.iterator_validation); np.argmax(...)
Prediction ==
    /\ Start("predict")
    /\ \/ /\ model # <<>>
          /\ Return("predict")
       \/ Raise("predict")
    /\ UNCHANGED <<fine_tune_start_block, model_dir, model_dir0, reset_dirs_arg,
                   base_model, mm, prepare_arg, fine_tune_arg, start_epoch,
                   epochs_run, phases_trained, model, history_phase_1,
                   history_phase_2, plots>>

\* ReportManager.show_final_classification_report(...)
FinalClassificationReport ==
    /\ Start("show_final_classification_report")
    /\ \/ Return("show_final_classification_report")
       \/ Raise("show_final_classification_report")
    /\ UNCHANGED <<fine_tune_start_block, model_dir, model_dir0, reset_dirs_arg,
                   base_model, mm, prepare_arg, fine_tune_arg, start_epoch,
                   epochs_run, phases_trained, model, history_phase_1,
                   history_phase_2, plots>>

Next ==
    \/ EnvironmentConfiguration
    \/ DatasetLoading
    \/ BaseModelCreation
    \/ ImageIteratorCreation
    \/ ModelBuild
    \/ Freeze
    \/ PrepareForFineTuning
    \/ FineTuning
    \/ ReadingMetricFiles
    \/ Plotting
    \/ Prediction
    \/ FinalClassificationReport

Spec == Init /\ [][Next]_vars

\* ---------------------------------------------------------------------------
\* Properties
\* ---------------------------------------------------------------------------
IsPrefix(s, t) == /\ Len(s) <= Len(t)
                  /\ \A i \in 1..Len(s) : s[i] = t[i]

Started(s) == s \in Range(log)

\* C1: when the earlier session left a backup at epoch e, 0 < e < N_TRAINING_EPOCHS,
\* the training of fine_tune_model starts at epoch e, not at epoch 0, and the
\* epochs of the interrupted and of the resumed run together never exceed
\* N_TRAINING_EPOCHS.
C1_ResumesFromBackup ==
    (model_dir0[BACKUP] # Missing /\ start_epoch # <<>>) =>
        LET e == model_dir0[BACKUP][1]
        IN  (0 < e /\ e < N_TRAINING_EPOCHS) =>
               /\ start_epoch = <<e>>
               /\ start_epoch # <<0>>
               /\ e + epochs_run <= N_TRAINING_EPOCHS

C1_Witness ==
    /\ model_dir0[BACKUP] = <<5>>
    /\ start_epoch = <<5>>
    /\ epochs_run = 15
    /\ model # <<>>

\* C2: get_config is only ever called with reset_dirs = False, and until
\* fine_tune_model is called the model directory holds exactly what it held
\* when run_on started.
C2_DirectoriesKept ==
    /\ reset_dirs_arg \in {<<>>, <<FALSE>>}
    /\ ~Started("fine_tune_model") => model_dir = model_dir0

C2_Witness ==
    /\ pc = "fine_tune_model"
    /\ reset_dirs_arg = <<FALSE>>
    /\ model_dir0[BACKUP] = <<3>>
    /\ model_dir0[CLASSIFICATION_CSV] = <<2>>
    /\ model_dir = model_dir0

\* C3 as stated: a run trains phase 1 (the classifier head) and then phase 2
\* (the fine-tuning); phase 2 begins only after phase 1 of the run completed.
C3_TwoPhasesInOneRun ==
    /\ Started("fine_tune_model") => (Len(phases_trained) = 2 /\ phases_trained[1] = 1)
    /\ pc = "done" => phases_trained = <<1, 2>>

\* C3 amended: run_on trains phase 2 only; it never trains the classifier head
\* (phase 1 belongs to the earlier session, whose classification_layers.csv it
\* leaves as it was), and the fine-tuning begins only after the base model was
\* frozen.
C3_OnlyPhaseTwoAfterFreeze ==
    /\ phases_trained \in {<<>>, <<2>>}
    /\ model_dir[CLASSIFICATION_CSV] = model_dir0[CLASSIFICATION_CSV]
    /\ Started("fine_tune_model") =>
          /\ mm.frozen
          /\ \E i, j \in 1..Len(log) : /\ i < j
                                       /\ log[i] = "freeze_base_model"
                                       /\ log[j] = "fine_tune_model"
    /\ pc = "done" => phases_trained = <<2>>

C3_Witness ==
    /\ pc = "done"
    /\ phases_trained = <<2>>
    /\ mm.frozen
    /\ model_dir0[CLASSIFICATION_CSV] = <<1>>

\* C4: the stages of run_on start in the order environment configuration,
\* dataset loading, base-model creation, image-iterator creation, model build,
\* freeze, prepare for fine-tuning, fine-tuning, reading the metric files,
\* plotting, prediction, final classification report; each at most once, and a
\* stage starts only when every stage before it has returned.
ClaimedStages ==
    << "get_config", "load_datasets", "get_base_model", "get_image_iterators",
       "build_model", "freeze_base_model", "prepare_model_for_fine_tune",
       "fine_tune_model", "read_csv", "plot", "predict",
       "show_final_classification_report" >>

C4_LinearStages ==
    /\ IsPrefix(log, ClaimedStages)
    /\ \A i, j \in 1..Len(log) : log[i] = log[j] => i = j
    /\ pc \notin {"done", "error"} => pc = ClaimedStages[Len(log) + 1]
    /\ pc = "error" => failed_at = <<log[Len(log)]>>
    /\ pc = "done" => log = ClaimedStages

C4_Witness ==
    /\ pc = "done"
    /\ Len(log) = 12
    /\ log[1] = "get_config"
    /\ log[12] = "show_final_classification_report"

\* C5: once a stage has raised, the run is in the error state at that stage:
\* the failed stage is the last one started, it was started once, no training
\* follows a failed preparation, no reading or plotting follows a failed
\* training, and nothing is executed from the error state.
C5_StateAtFailure ==
    /\ pc = "error" <=> failed_at # <<>>
    /\ failed_at # <<>> =>
          /\ log # <<>>
          /\ log[Len(log)] = failed_at[1]
          /\ \A i \in 1..(Len(log) - 1) : log[i] # failed_at[1]
          /\ \A i \in 1..(Len(log) - 1) : IndexOf(log[i]) < IndexOf(failed_at[1])
    /\ failed_at = <<"prepare_model_for_fine_tune">> =>
          (phases_trained = <<>> /\ start_epoch = <<>> /\ epochs_run = 0)
    /\ failed_at = <<"fine_tune_model">> =>
          (history_phase_1 = <<>> /\ history_phase_2 = <<>> /\ plots = <<>> /\ model = <<>>)

C5_NoRecovery ==
    /\ []C5_StateAtFailure
    /\ [][pc = "error" => (pc' = "error" /\ log' = log /\ failed_at' = failed_at)]_vars

C5_Witness ==
    /\ pc = "error"
    /\ failed_at = <<"fine_tune_model">>
    /\ epochs_run = 4
    /\ Len(log) = 8

\* C6: the two metric files are read only after fine_tune_model returned, both
\* before any plot; what is plotted for a phase is the content of that phase's
\* file; run_on never trains phase 1, so the phase-1 history is what the
\* earlier session left, and the reading can only have returned if
\* classification_layers.csv existed when run_on started.
C6_ReportFromFiles ==
    /\ (history_phase_1 # <<>> \/ history_phase_2 # <<>>) => model # <<>>
    /\ plots # <<>> => (history_phase_1 # <<>> /\ history_phase_2 # <<>>)
    /\ history_phase_1 # <<>> => history_phase_1 = <<model_dir[CLASSIFICATION_CSV]>>
    /\ history_phase_2 # <<>> => history_phase_2 = <<model_dir[FINE_TUNE_CSV]>>
    /\ \A i \in 1..Len(plots) :
          plots[i].history = IF plots[i].phase = 1
                             THEN model_dir[CLASSIFICATION_CSV]
                             ELSE model_dir[FINE_TUNE_CSV]
    /\ \A i \in 1..Len(plots) :
          plots[i].phase = 1 => plots[i].history = model_dir0[CLASSIFICATION_CSV]
    /\ 1 \notin Range(phases_trained)
    /\ (Started("plot") \/ pc = "done") => model_dir0[CLASSIFICATION_CSV] # Missing

C6_Witness ==
    /\ pc = "done"
    /\ Len(plots) = 4
    /\ model_dir0[CLASSIFICATION_CSV] = <<2>>
    /\ plots[1].history = <<2>>
    /\ plots[2].history = <<N_TRAINING_EPOCHS>>

\* C7: build_model, freeze_base_model, prepare_model_for_fine_tune and
\* fine_tune_model are called at most once each and in this order, all four
\* exactly once in a run that reaches fine_tune_model, and fine_tune_model is
\* only called on a model that was frozen and then prepared and compiled.
IsModelCall(s) == s \in {"build_model", "freeze_base_model",
                         "prepare_model_for_fine_tune", "fine_tune_model"}

ModelCalls == SelectSeq(log, IsModelCall)

C7_FrozenThenPrepared ==
    /\ IsPrefix(ModelCalls, << "build_model", "freeze_base_model",
                               "prepare_model_for_fine_tune", "fine_tune_model" >>)
    /\ (Started("fine_tune_model") \/ pc = "done") =>
          /\ Len(ModelCalls) = 4
          /\ mm.built
          /\ mm.frozen
          /\ mm.compiled
          /\ mm.prepared_on_frozen
          /\ mm.trainable_from = prepare_arg
          /\ prepare_arg # <<>>

C7_Witness ==
    /\ pc = "read_csv"
    /\ Len(ModelCalls) = 4
    /\ mm.prepared_on_frozen
    /\ model = <<mm>>

\* C8: for FINE_TUNE_START_BLOCK = k, 1 <= k <= 7, the n_fine_tune_layer_from
\* given to prepare_model_for_fine_tune and the one given to fine_tune_model are
\* both the k-th entry of the base model's fine_tune_layers.
C8_SameStartLayer ==
    (fine_tune_start_block >= 1 /\ fine_tune_start_block <= 7) =>
        /\ prepare_arg # <<>> =>
              prepare_arg = <<base_model[1].fine_tune_layers[fine_tune_start_block]>>
        /\ fine_tune_arg # <<>> =>
              /\ fine_tune_arg = <<base_model[1].fine_tune_layers[fine_tune_start_block]>>
              /\ fine_tune_arg = prepare_arg
        /\ (fine_tune_start_block = 1 /\ prepare_arg # <<>>) =>
              prepare_arg[1] = Head(base_model[1].fine_tune_layers)
        /\ (fine_tune_start_block = 7 /\ fine_tune_arg # <<>>) =>
              fine_tune_arg[1] = base_model[1].fine_tune_layers[Len(base_model[1].fine_tune_layers)]
        /\ Started("fine_tune_model") => fine_tune_arg # <<>>

C8_Witness ==
    /\ fine_tune_start_block = 7
    /\ fine_tune_arg = <<71>>
    /\ prepare_arg = <<71>>
    /\ model # <<>>

====
